---- MODULE Spec2Model ----
(***************************************************************************)
(* Model of app.py of local_food-waste-system: a Streamlit script that     *)
(* seeds an SQLite file from four CSV files on first run and then serves   *)
(* six navigation actions over it.  Streamlit re-executes the whole script *)
(* on every interaction, so one step of the model is one execution of the  *)
(* script: the seeding guard (lines 43-44) followed by the branch of the   *)
(* selected menu entry.                                                    *)
(***************************************************************************)
EXTENDS Integers, Sequences, FiniteSets, TLC

VARIABLES
    dbExists,       \* os.path.exists(DB_PATH)
    hasTables,      \* the four tables exist in the store file
    providers,      \* rows of table providers, in rowid order
    receivers,      \* rows of table receivers
    food_listings,  \* rows of table food_listings
    claims,         \* rows of table claims
    csv,            \* the four seed input files: [ok, version]
    seedCalls,      \* number of invocations of create_database so far
    seedConns,      \* connections opened by create_database and not closed
    gatewayConns,   \* connections opened by get_connection and not closed
    rendered,       \* some execution has reached the sidebar menu (line 67)
    last,           \* what the last execution of the script did
    shown           \* what the last execution of the script rendered

vars == <<dbExists, hasTables, providers, receivers, food_listings, claims,
          csv, seedCalls, seedConns, gatewayConns, rendered, last, shown>>

(***************************************************************************)
(* Bounds of the model.                                                    *)
(***************************************************************************)
MaxRows == 3        \* Add Listing is explored while food_listings is shorter
MaxClaims == 6      \* longest claims table drawn by InitReports
MaxLeaked == 1      \* leaked connections explored before one is collected

(***************************************************************************)
(* Values.  A cell that may be NULL is tagged: SQL NULL, an integer, and   *)
(* on the Python side None and NaN.                                        *)
(***************************************************************************)
Null   == [tag |-> "null", v |-> 0]
PyNone == [tag |-> "none", v |-> 0]
NaN    == [tag |-> "nan",  v |-> 0]
IntVal(n) == [tag |-> "int",  v |-> n]

\* sqlite3 parameter binding: None and a float NaN are both stored as NULL.
Bind(x) == IF x.tag \in {"none", "nan", "null"} THEN Null ELSE x

\* SQL comparison "col = ?": NULL is equal to nothing, not even to NULL.
SqlEq(a, b) == a.tag = "int" /\ b.tag = "int" /\ a.v = b.v

\* Python truthiness of a selectbox value ("if selected_id:").
Truthy(x) == x.tag = "nan" \/ (x.tag = "int" /\ x.v # 0)

Range(s) == {s[i] : i \in 1..Len(s)}

\* pandas materialises an integer column: with no NULL it stays integer, with
\* some NULLs the NULLs read as NaN, and when every cell is NULL they read as
\* None (object column).
FromSql(col) ==
    LET allNull == col # <<>> /\ \A i \in 1..Len(col) : col[i] = Null
    IN  [i \in 1..Len(col) |->
            IF col[i] # Null THEN col[i] ELSE IF allNull THEN PyNone ELSE NaN]

(***************************************************************************)
(* Dates.  A date is <<year, month, day>>; its ISO-8601 text is a sequence *)
(* of ten one-character strings.                                           *)
(***************************************************************************)
DigitChars == <<"0", "1", "2", "3", "4", "5", "6", "7", "8", "9">>
Digit(n) == DigitChars[n + 1]
DigitVal(c) == (CHOOSE i \in 1..10 : DigitChars[i] = c) - 1

isoformat(d) ==
    << Digit(d[1] \div 1000), Digit((d[1] \div 100) % 10),
       Digit((d[1] \div 10) % 10), Digit(d[1] % 10), "-",
       Digit(d[2] \div 10), Digit(d[2] % 10), "-",
       Digit(d[3] \div 10), Digit(d[3] % 10) >>

fromisoformat(t) ==
    << 1000 * DigitVal(t[1]) + 100 * DigitVal(t[2]) + 10 * DigitVal(t[3])
         + DigitVal(t[4]),
       10 * DigitVal(t[6]) + DigitVal(t[7]),
       10 * DigitVal(t[9]) + DigitVal(t[10]) >>

DateLE(a, b) ==
    \/ a[1] < b[1]
    \/ a[1] = b[1] /\ a[2] < b[2]
    \/ a[1] = b[1] /\ a[2] = b[2] /\ a[3] <= b[3]

\* date.today(), fixed for the exploration.
Today == <<2025, 1, 1>>

(***************************************************************************)
(* Form inputs: the eight values the widgets of Add / Update Listing       *)
(* deliver.  number_input has min_value=1.                                 *)
(***************************************************************************)
Form(n, q, d, p, pt, l, ft, mt) ==
    [Food_Name |-> n, Quantity |-> q, Expiry_Date |-> d, Provider_ID |-> p,
     Provider_Type |-> pt, Location |-> l, Food_Type |-> ft, Meal_Type |-> mt]

FormInputs ==
    { Form("Rice", 10, <<2025, 1, 1>>, 1, "Restaurant", "X", "Grain", "Lunch"),
      Form("Bread", 5, <<2025, 12, 31>>, 2, "Bakery", "Y", "Bakery", "Dinner"),
      Form("Soup", 7, <<2024, 6, 9>>, 3, "Canteen", "Z", "Grain", "Snacks") }

\* The eight parameters bound to the INSERT / UPDATE statement.
Params(f) == [f EXCEPT !.Expiry_Date = isoformat(f.Expiry_Date)]

Columns == {"Food_Name", "Quantity", "Expiry_Date", "Provider_ID",
            "Provider_Type", "Location", "Food_Type", "Meal_Type"}

Row(id, p) ==
    [Food_ID |-> id, Food_Name |-> p.Food_Name, Quantity |-> p.Quantity,
     Expiry_Date |-> p.Expiry_Date, Provider_ID |-> p.Provider_ID,
     Provider_Type |-> p.Provider_Type, Location |-> p.Location,
     Food_Type |-> p.Food_Type, Meal_Type |-> p.Meal_Type]

\* The eight attribute values of a stored row.
Attrs(r) == [c \in Columns |-> r[c]]

(***************************************************************************)
(* Seed inputs.  csv.ok says whether all four files are present and well   *)
(* formed; csv.v selects their contents.                                   *)
(***************************************************************************)
NumSeeds == 2

SeedInputs == [ok : BOOLEAN, v : 1..NumSeeds]

Party(id, n, t, c) ==
    [ID |-> id, Name |-> n, Type |-> t, City |-> c, Contact |-> "n/a"]

Claim(id, food, rcv, st) ==
    [Claim_ID |-> id, Food_ID |-> food, Receiver_ID |-> rcv, Status |-> st,
     Timestamp |-> "2025-03-05"]

Statuses == {"Pending", "Completed", "Cancelled"}

\* A claims table holding the given statuses, one claim per status.
ClaimsOf(sts) == [i \in 1..Len(sts) |-> Claim(i, 1, 1, sts[i])]

ProvidersCsv(v) ==
    IF v = 1 THEN << Party(1, "P1", "Restaurant", "Austin"),
                     Party(2, "P2", "Bakery", "Boston") >>
             ELSE << Party(1, "P1", "Canteen", "Boston") >>

ReceiversCsv(v) ==
    IF v = 1 THEN << Party(1, "R1", "NGO", "Austin") >>
             ELSE << Party(1, "R1", "Shelter", "Chicago"),
                     Party(2, "R2", "NGO", "Boston") >>

FoodCsv(v) ==
    IF v = 1
    THEN << Row(IntVal(1), Params(Form("Rice", 10, <<2025, 1, 1>>, 1,
                                       "Restaurant", "X", "Grain", "Lunch"))),
            Row(IntVal(2), Params(Form("Cake", 4, <<2025, 2, 3>>, 2,
                                       "Bakery", "Y", "Dessert", "Dinner"))) >>
    ELSE << Row(IntVal(1), Params(Form("Milk", 2, <<2025, 4, 5>>, 1,
                                       "Canteen", "Z", "Dairy", "Breakfast"))) >>

ClaimsCsv(v) ==
    IF v = 1 THEN ClaimsOf(<<"Pending", "Completed", "Pending">>)
             ELSE ClaimsOf(<<>>)

\* The four tables create_database writes (to_sql, if_exists="replace"): the
\* contents of the four files replace whatever the tables held.
create_database(v) ==
    [providers |-> ProvidersCsv(v), receivers |-> ReceiversCsv(v),
     food_listings |-> FoodCsv(v), claims |-> ClaimsCsv(v),
     hasTables |-> TRUE, seeded |-> 1]

\* The guard left out: every start seeds.
NeedsSeedAlways == TRUE

\* The module-level guard: seeding runs only while the store file is absent.
NeedsSeed == ~dbExists

\* The store as the menu branch of this execution finds it.
Boot ==
    IF NeedsSeed
    THEN create_database(csv.v)
    ELSE [providers |-> providers, receivers |-> receivers,
          food_listings |-> food_listings, claims |-> claims,
          hasTables |-> hasTables, seeded |-> 0]

(***************************************************************************)
(* Gateway.  A statement raises when its table does not exist; conn.close()*)
(* is the statement after the one that raises.                             *)
(***************************************************************************)
Executes(b) == b.hasTables

ConnsAfter(ok) == IF ok THEN gatewayConns ELSE gatewayConns + 1

(***************************************************************************)
(* Statements on food_listings.                                            *)
(***************************************************************************)
\* INSERT naming the eight columns; the table to_sql created has a plain
\* INTEGER column Food_ID, so the unnamed column is NULL.
InsertListing(fl, p) == Append(fl, Row(Null, p))

\* SET Quantity = Quantity + ? in place of Quantity = ?.
UpdateListingAccumulate(fl, id, p) ==
    [i \in 1..Len(fl) |->
        IF SqlEq(fl[i].Food_ID, Bind(id))
        THEN Row(fl[i].Food_ID,
                 [p EXCEPT !.Quantity = fl[i].Quantity + p.Quantity])
        ELSE fl[i]]

UpdateListing(fl, id, p) ==
    [i \in 1..Len(fl) |->
        IF SqlEq(fl[i].Food_ID, Bind(id)) THEN Row(fl[i].Food_ID, p) ELSE fl[i]]

DeleteListing(fl, id) ==
    SelectSeq(fl, LAMBDA r : ~SqlEq(r.Food_ID, Bind(id)))

\* SELECT * FROM food_listings WHERE Food_ID = ?
ReadForEdit(fl, id) ==
    SelectSeq(fl, LAMBDA r : SqlEq(r.Food_ID, Bind(id)))

\* SELECT Food_ID, Food_Name ...; df["Food_ID"].tolist()
ListingIds(fl) == FromSql([i \in 1..Len(fl) |-> fl[i].Food_ID])

\* st.selectbox: one of the options, None when there is none.
Selectbox(options) == IF options = <<>> THEN {PyNone} ELSE Range(options)

\* The defaults the Update form is filled with from the row read for edit.
FormDefaults(row) ==
    Form(row.Food_Name, row.Quantity,
         IF row.Expiry_Date # <<>> THEN fromisoformat(row.Expiry_Date)
                                   ELSE Today,
         row.Provider_ID, row.Provider_Type, row.Location, row.Food_Type,
         row.Meal_Type)

(***************************************************************************)
(* Report catalog.  A result is a sequence of rows.  Where SQL leaves the  *)
(* order of rows open (no ORDER BY, or equal sort keys) every order is a   *)
(* possible result.                                                        *)
(***************************************************************************)
RECURSIVE OrderedDesc(_, _)
\* All arrangements of the set S by key[x] descending.
OrderedDesc(S, key) ==
    IF S = {} THEN {<<>>}
    ELSE UNION { { <<x>> \o s : s \in OrderedDesc(S \ {x}, key) } :
                 x \in {y \in S : \A z \in S : key[z] <= key[y]} }

\* Rows of a GROUP BY without ORDER BY.
AnyOrder(S) == OrderedDesc(S, [x \in S |-> 0])

CountWhere(t, col, val) == Cardinality({i \in 1..Len(t) : t[i][col] = val})

\* ORDER BY City over the cities of the model.
CityOrder == <<"Austin", "Boston", "Chicago">>

q1(prov, rcv) ==
    LET present == {prov[i].City : i \in 1..Len(prov)}
                     \cup {rcv[i].City : i \in 1..Len(rcv)}
        line(c) == [City |-> c, Providers |-> CountWhere(prov, "City", c),
                    Receivers |-> CountWhere(rcv, "City", c)]
        all == [i \in 1..Len(CityOrder) |-> line(CityOrder[i])]
    IN  SelectSeq(all, LAMBDA r : r.City \in present)

\* The ORDER BY clause left out.
q7Unordered(fl) ==
    LET types == {fl[i].Food_Type : i \in 1..Len(fl)}
    IN  { [i \in 1..Len(s) |->
             [Food_Type |-> s[i],
              Count_Listings |-> CountWhere(fl, "Food_Type", s[i])]] :
          s \in AnyOrder(types) }

\* GROUP BY Food_Type ORDER BY Count_Listings DESC
q7(fl) ==
    LET types == {fl[i].Food_Type : i \in 1..Len(fl)}
        cnt == [t \in types |-> CountWhere(fl, "Food_Type", t)]
    IN  { [i \in 1..Len(s) |-> [Food_Type |-> s[i], Count_Listings |-> cnt[s[i]]]] :
          s \in OrderedDesc(types, cnt) }

\* 100*n/total in integer arithmetic (100 written for 100.0).
PercentageTruncated(n, total) == 100 * ((100 * n) \div total)

\* ROUND(100.0*n/total, 2) in hundredths of a percent: the nearest hundredth,
\* a half rounded away from zero.
Percentage(n, total) == (2 * 10000 * n + total) \div (2 * total)

\* GROUP BY Status
q10(cl) ==
    LET sts == {cl[i].Status : i \in 1..Len(cl)}
        line(st) == [Status |-> st, Count_Status |-> CountWhere(cl, "Status", st),
                     Percentage |-> Percentage(CountWhere(cl, "Status", st), Len(cl))]
    IN  { [i \in 1..Len(s) |-> line(s[i])] : s \in AnyOrder(sts) }

(***************************************************************************)
(* One execution of the script.                                            *)
(***************************************************************************)
Menu == {"Home", "View Data", "Analytics", "Add Listing", "Update Listing",
         "Delete Listing"}

Tables == {"providers", "receivers", "food_listings", "claims"}

NoForm == <<>>

Did(menu, button, sel, form) ==
    [menu |-> menu, button |-> button, sel |-> sel, form |-> form]

Nothing == [error |-> FALSE, q1 |-> <<>>, q7 |-> <<>>, q10 |-> <<>>,
            table |-> <<>>, rows |-> <<>>]

Exception == [Nothing EXCEPT !.error = TRUE]

\* The statements of the three mutating flows, on the store as a whole.
InsertStmt(b, p) == [b EXCEPT !.food_listings = InsertListing(@, p)]

UpdateStmt(b, sel, p) == [b EXCEPT !.food_listings = UpdateListing(@, sel, p)]

\* The delete cascading to the claims on the listing.
DeleteStmtCascade(b, sel) ==
    [b EXCEPT !.food_listings = DeleteListing(@, sel),
              !.claims = SelectSeq(@, LAMBDA c : ~SqlEq(IntVal(c.Food_ID), Bind(sel)))]

DeleteStmt(b, sel) == [b EXCEPT !.food_listings = DeleteListing(@, sel)]

\* Lines 43-44 passed and the branch ran: the store file exists and holds b.
Started(b) ==
    /\ dbExists' = TRUE
    /\ hasTables' = b.hasTables
    /\ providers' = b.providers
    /\ receivers' = b.receivers
    /\ food_listings' = b.food_listings
    /\ claims' = b.claims
    /\ seedCalls' = seedCalls + Boot.seeded
    /\ rendered' = TRUE
    /\ UNCHANGED <<csv, seedConns>>

\* A Gateway call of the branch raises: the script stops there.
Raises(menu, button, sel, form) ==
    /\ ~Executes(Boot)
    /\ gatewayConns < MaxLeaked
    /\ Started(Boot)
    /\ gatewayConns' = ConnsAfter(FALSE)
    /\ last' = Did(menu, button, sel, form)
    /\ shown' = Exception

\* create_database raises in read_csv: line 28 has created the store file,
\* no table is written and line 41 is not reached.
SeedFails ==
    /\ NeedsSeed
    /\ ~csv.ok
    /\ dbExists' = TRUE
    /\ seedCalls' = seedCalls + 1
    /\ seedConns' = seedConns + 1
    /\ last' = Did("(startup)", FALSE, PyNone, NoForm)
    /\ shown' = Exception
    /\ UNCHANGED <<hasTables, providers, receivers, food_listings, claims, csv,
                   gatewayConns, rendered>>

StartOk == ~NeedsSeed \/ csv.ok

\* The radio shows "Home" until a rendered sidebar has offered the other
\* entries.
Selectable == rendered

Home ==
    /\ StartOk
    /\ Started(Boot)
    /\ last' = Did("Home", FALSE, PyNone, NoForm)
    /\ shown' = Nothing
    /\ UNCHANGED gatewayConns

ViewData ==
    /\ Selectable
    /\ StartOk
    /\ \/ /\ Executes(Boot)
          /\ Started(Boot)
          /\ \E t \in Tables :
                shown' = [Nothing EXCEPT !.table = Boot[t]]
          /\ gatewayConns' = ConnsAfter(TRUE)
          /\ last' = Did("View Data", FALSE, PyNone, NoForm)
       \/ Raises("View Data", FALSE, PyNone, NoForm)

Analytics ==
    /\ Selectable
    /\ StartOk
    /\ \/ /\ Executes(Boot)
          /\ Started(Boot)
          /\ \E r7 \in q7(Boot.food_listings), r10 \in q10(Boot.claims) :
                shown' = [Nothing EXCEPT
                             !.q1 = q1(Boot.providers, Boot.receivers),
                             !.q7 = r7, !.q10 = r10]
          /\ gatewayConns' = ConnsAfter(TRUE)
          /\ last' = Did("Analytics", FALSE, PyNone, NoForm)
       \/ Raises("Analytics", FALSE, PyNone, NoForm)

\* date_input of Add Listing has min_value=date.today().
AddInputs == {f \in FormInputs : DateLE(Today, f.Expiry_Date)}

AddListing ==
    /\ Selectable
    /\ StartOk
    /\ \E f \in AddInputs, button \in BOOLEAN :
          \/ /\ ~button
             /\ Started(Boot)
             /\ last' = Did("Add Listing", FALSE, PyNone, f)
             /\ shown' = Nothing
             /\ UNCHANGED gatewayConns
          \/ /\ button
             /\ Executes(Boot)
             /\ Len(Boot.food_listings) < MaxRows
             /\ Started(InsertStmt(Boot, Params(f)))
             /\ gatewayConns' = ConnsAfter(TRUE)
             /\ last' = Did("Add Listing", TRUE, PyNone, f)
             /\ shown' = Nothing
          \/ /\ button
             /\ Raises("Add Listing", TRUE, PyNone, f)

UpdateListingPage ==
    /\ Selectable
    /\ StartOk
    /\ \/ /\ Executes(Boot)
          /\ gatewayConns' = ConnsAfter(TRUE)
          /\ \E sel \in Selectbox(ListingIds(Boot.food_listings)) :
                LET current == IF Truthy(sel)
                               THEN ReadForEdit(Boot.food_listings, sel)
                               ELSE <<>>
                IN  \/ /\ current = <<>>
                       /\ Started(Boot)
                       /\ last' = Did("Update Listing", FALSE, sel, NoForm)
                       /\ shown' = Nothing
                    \/ /\ current # <<>>
                       /\ \E f \in FormInputs \cup {FormDefaults(current[1])},
                             button \in BOOLEAN :
                             /\ Started(IF button
                                        THEN UpdateStmt(Boot, sel, Params(f))
                                        ELSE Boot)
                             /\ last' = Did("Update Listing", button, sel, f)
                             /\ shown' = [Nothing EXCEPT !.rows = current]
       \/ Raises("Update Listing", FALSE, PyNone, NoForm)

DeleteListingPage ==
    /\ Selectable
    /\ StartOk
    /\ \/ /\ Executes(Boot)
          /\ gatewayConns' = ConnsAfter(TRUE)
          /\ \E sel \in Selectbox(ListingIds(Boot.food_listings)),
                button \in BOOLEAN :
                /\ Started(IF button THEN DeleteStmt(Boot, sel) ELSE Boot)
                /\ last' = Did("Delete Listing", button, sel, NoForm)
                /\ shown' = Nothing
       \/ Raises("Delete Listing", FALSE, PyNone, NoForm)

\* The seed files are edited, removed or repaired by their owner.
ChangeSeedInputs ==
    /\ \E c \in SeedInputs : c # csv /\ csv' = c
    /\ UNCHANGED <<dbExists, hasTables, providers, receivers, food_listings,
                   claims, seedCalls, seedConns, gatewayConns, rendered, last,
                   shown>>

\* The interpreter finalises a connection object nothing refers to any more.
CollectGarbage ==
    /\ \/ /\ seedConns > 0
          /\ seedConns' = seedConns - 1
          /\ UNCHANGED gatewayConns
       \/ /\ gatewayConns > 0
          /\ gatewayConns' = gatewayConns - 1
          /\ UNCHANGED seedConns
    /\ UNCHANGED <<dbExists, hasTables, providers, receivers, food_listings,
                   claims, csv, seedCalls, rendered, last, shown>>

Init ==
    /\ dbExists = FALSE
    /\ hasTables = FALSE
    /\ providers = <<>>
    /\ receivers = <<>>
    /\ food_listings = <<>>
    /\ claims = <<>>
    /\ csv \in SeedInputs
    /\ seedCalls = 0
    /\ seedConns = 0
    /\ gatewayConns = 0
    /\ rendered = FALSE
    /\ last = Did("(none)", FALSE, PyNone, NoForm)
    /\ shown = Nothing

Next ==
    \/ SeedFails
    \/ Home
    \/ ViewData
    \/ Analytics
    \/ AddListing
    \/ UpdateListingPage
    \/ DeleteListingPage
    \/ ChangeSeedInputs
    \/ CollectGarbage

Spec == Init /\ [][Next]_vars

(***************************************************************************)
(* Reports over an arbitrary claims table: the store as seeded from inputs *)
(* whose claims file holds any sequence of statuses up to MaxClaims.       *)
(***************************************************************************)
RECURSIVE SeqsUpTo(_, _)
SeqsUpTo(S, n) ==
    IF n = 0 THEN {<<>>}
    ELSE LET shorter == SeqsUpTo(S, n - 1)
         IN  shorter \cup {Append(s, x) : s \in shorter, x \in S}

InitReports ==
    /\ dbExists = TRUE
    /\ hasTables = TRUE
    /\ providers = ProvidersCsv(1)
    /\ receivers = ReceiversCsv(1)
    /\ food_listings = FoodCsv(1)
    /\ claims \in {ClaimsOf(sts) : sts \in SeqsUpTo(Statuses, MaxClaims)}
    /\ csv = [ok |-> TRUE, v |-> 1]
    /\ seedCalls = 1
    /\ seedConns = 0
    /\ gatewayConns = 0
    /\ rendered = TRUE
    /\ last = Did("(none)", FALSE, PyNone, NoForm)
    /\ shown = Nothing

NextReports ==
    \/ Analytics
    \/ ViewData

SpecReports == InitReports /\ [][NextReports]_vars

(***************************************************************************)
(* Properties.                                                             *)
(***************************************************************************)
RECURSIVE SumOf(_, _)
SumOf(rows, col) ==
    IF rows = <<>> THEN 0 ELSE rows[1][col] + SumOf(Tail(rows), col)

Abs(x) == IF x < 0 THEN 0 - x ELSE x

Added == last.menu = "Add Listing" /\ last.button /\ ~shown.error

\* C1: after a listing is inserted through Add Listing, read-for-edit by the
\* identifier assigned to it returns exactly one row, holding the eight
\* inserted values.
C1_RoundTrip ==
    Added =>
        LET new == food_listings[Len(food_listings)]
        IN  /\ new.Food_ID.tag = "int"
            /\ Len(ReadForEdit(food_listings, new.Food_ID)) = 1
            /\ Attrs(ReadForEdit(food_listings, new.Food_ID)[1])
                  = Params(last.form)

AllAssignedUnique(fl) ==
    /\ \A i \in 1..Len(fl) : fl[i].Food_ID.tag = "int"
    /\ \A i, j \in 1..Len(fl) : fl[i].Food_ID = fl[j].Food_ID => i = j

\* No operation changes the Food_ID of a row that stays in the table.
IdsStable ==
    dbExists =>
        IF last'.menu = "Delete Listing"
        THEN Range(food_listings') \subseteq Range(food_listings)
        ELSE /\ Len(food_listings') >= Len(food_listings)
             /\ \A i \in 1..Len(food_listings) :
                   food_listings'[i].Food_ID = food_listings[i].Food_ID

\* C2: every row of food_listings has a store-assigned (non-null) Food_ID, no
\* two rows share a Food_ID, and no operation changes the Food_ID of an
\* existing row.
C2_FoodIdUniqueStable ==
    [][AllAssignedUnique(food_listings') /\ IdsStable]_vars

\* C3: a pressed Delete of the selected identifier N removes exactly the rows
\* listed under N (none when N is not present, leaving the table unchanged),
\* and afterwards read-for-edit(N) returns no row.
C3_DeleteRemoves ==
    [][(last'.menu = "Delete Listing" /\ last'.button /\ ~shown'.error) =>
          LET before == Boot.food_listings
              ids == ListingIds(before)
              kept == {i \in 1..Len(before) : ids[i] # last'.sel}
          IN  /\ Range(food_listings') = {before[i] : i \in kept}
              /\ Len(food_listings') = Cardinality(kept)
              /\ ReadForEdit(food_listings', last'.sel) = <<>>]_vars

\* C4: no connection opened by run_query or run_action remains open after the
\* call returned or raised.
C4_ConnectionsClosed == gatewayConns = 0

\* C5: once the store file exists create_database is never invoked again, and
\* no start replaces the tables: food_listings changes only by a pressed
\* Add / Update / Delete, whatever the seed input files are by then.
C5_SeedOnlyWhileAbsent ==
    [][dbExists =>
          /\ seedCalls' = seedCalls
          /\ hasTables' = hasTables
          /\ food_listings' # food_listings => last'.button]_vars

C5_Witness ==
    /\ dbExists /\ hasTables /\ seedCalls = 1
    /\ csv.ok /\ providers # ProvidersCsv(csv.v)
    /\ last.menu = "Home"
    /\ \E i \in 1..Len(food_listings) : food_listings[i].Food_Name = "Bread"

\* C6: after seeding no operation changes providers, receivers or claims, and
\* Home, View Data, Analytics and read-for-edit leave food_listings unchanged.
C6_Frame ==
    [][dbExists =>
          /\ providers' = providers
          /\ receivers' = receivers
          /\ claims' = claims
          /\ (last'.menu \in {"Home", "View Data", "Analytics"}
                \/ (last'.menu = "Update Listing" /\ ~last'.button))
                => food_listings' = food_listings]_vars

C6_Witness ==
    /\ last.menu = "Delete Listing" /\ last.button
    /\ Len(food_listings) < Len(FoodCsv(1))
    /\ claims = ClaimsCsv(1) /\ claims # <<>>

Updated == last.menu = "Update Listing" /\ last.button /\ ~shown.error

\* C7: after an Update every targeted row holds exactly the eight supplied
\* values, and applying the same Update again leaves food_listings as it is.
C7_UpdateIdempotent ==
    Updated =>
        /\ \A i \in 1..Len(food_listings) :
              SqlEq(food_listings[i].Food_ID, Bind(last.sel))
                 => Attrs(food_listings[i]) = Params(last.form)
        /\ UpdateListing(food_listings, last.sel, Params(last.form))
              = food_listings

C7_Witness ==
    /\ Updated
    /\ last.form.Food_Name = "Bread"
    /\ \E i \in 1..Len(food_listings) :
          /\ food_listings[i].Food_ID = last.sel
          /\ food_listings[i].Food_Name = "Bread"

Analysed == last.menu = "Analytics" /\ ~shown.error

\* C8: the food-type frequency report has exactly one row per distinct
\* Food_Type present, its counts sum to the number of listings, and its rows
\* are ordered by count descending.
C8_FoodTypeReport ==
    Analysed =>
        LET r == shown.q7
            types == {food_listings[i].Food_Type : i \in 1..Len(food_listings)}
        IN  /\ Len(r) = Cardinality(types)
            /\ {r[i].Food_Type : i \in 1..Len(r)} = types
            /\ \A i \in 1..Len(r) :
                  r[i].Count_Listings
                     = CountWhere(food_listings, "Food_Type", r[i].Food_Type)
            /\ SumOf(r, "Count_Listings") = Len(food_listings)
            /\ \A i, j \in 1..Len(r) :
                  i < j => r[i].Count_Listings >= r[j].Count_Listings

C8_Witness ==
    /\ Analysed
    /\ Len(shown.q7) = 2
    /\ shown.q7[1].Count_Listings > shown.q7[2].Count_Listings
    /\ \E i \in 1..Len(food_listings) : food_listings[i].Food_ID = Null

\* C9: each Status group's Percentage is 100 x count / total rounded to two
\* decimals, the percentages sum to 100.00 within half a hundredth per group,
\* and an empty claims table gives zero rows without error.
C9_StatusDistribution ==
    (last.menu = "Analytics") =>
        LET r == shown.q10
            total == Len(claims)
        IN  /\ ~shown.error
            /\ claims = <<>> => r = <<>>
            /\ {r[i].Status : i \in 1..Len(r)}
                  = {claims[i].Status : i \in 1..Len(claims)}
            /\ Len(r) = Cardinality({claims[i].Status : i \in 1..Len(claims)})
            /\ \A i \in 1..Len(r) :
                  /\ r[i].Count_Status = CountWhere(claims, "Status", r[i].Status)
                  /\ 2 * Abs(r[i].Percentage * total - 10000 * r[i].Count_Status)
                        <= total
            /\ claims # <<>> =>
                  2 * Abs(SumOf(r, "Percentage") - 10000) <= Len(r)

C9_Witness ==
    /\ last.menu = "Analytics"
    /\ Len(shown.q10) = 3
    /\ SumOf(shown.q10, "Percentage") = 9999

C9_WitnessEmpty ==
    last.menu = "Analytics" /\ claims = <<>> /\ shown.q10 = <<>>

C9_WitnessAbove ==
    last.menu = "Analytics" /\ SumOf(shown.q10, "Percentage") = 10001

\* C10: if the store file exists, all four tables exist in it fully loaded.
C10_SentinelImpliesSeed == dbExists => hasTables

====
